---------------------------- MODULE Spec2Model ----------------------------
(***************************************************************************)
(* A model of src/streamlit_app.py: the rule cascade answer_query, the     *)
(* Gemini wrappers it delegates to, the chat submit handler with its       *)
(* history display, and the two average metrics of the analysis panel.     *)
(*                                                                         *)
(* Text is modelled as a sequence of characters.  A character is a string  *)
(* naming it: ASCII characters name themselves, the others are named by    *)
(* their reading:                                                          *)
(*   retsu 列   ka カ  ra ラ  mu_k ム  sa サ  n_k ン  pu プ  ru_k ル        *)
(*   sen 先  tou 頭  hei 平  kin 均  yaku 役  ritsu 立  ni に              *)
(*   fuku 含  mu む  me め  ru る  ma ま  re れ                            *)
(*   you 要  yaku2 約  to と  te て  setsu 説  mei 明  shi し  kai 解      *)
(*   touten 、  ldquo (left double quote)  rdquo (right double quote)      *)
(*   ichi 一  ran 覧  gyou 行  ju 授  gyou2 業  ga が  tsu_s っ  ta た      *)
(*   ka_h か  lparen_fw （  rparen_fw ）  wo を  oshi 教  e_h え            *)
(*   a_k ア  ke ケ  chouon ー  to_k ト  kai2 回  tou2 答  en 演  shuu 習    *)
(*   hyou 表  ji 示                                                        *)
(***************************************************************************)
EXTENDS Integers, Sequences, FiniteSets, TLC

VARIABLES
    df,             \* the loaded table (after normalisation and coercion)
    search_column,  \* sidebar selectbox: column used by the keyword search
    use_gemini,     \* sidebar checkbox
    user_input,     \* content of the sidebar text box
    query,          \* argument of the pending/last answer_query call
    use_llm,        \* argument of the pending/last answer_query call
    pc,             \* "ready": call pending, "done": call ended, "session"
    result,         \* outcome of the last answer_query call
    full_prompt,    \* prompt composed by the last call (rule 6), or NoPrompt
    sdk_calls,      \* the SDK attempts the last call made, in order
    chat_history,   \* st.session_state.chat_history
    displayed,      \* markdown blocks of the history display of the last run
    metrics         \* the two average metrics of the analysis panel

vars == <<df, search_column, use_gemini, user_input, query, use_llm, pc,
          result, full_prompt, sdk_calls, chat_history, displayed, metrics>>

---------------------------------------------------------------------------
(* Bounds of the model *)

\* typed queries are sequences of at most MaxTokens vocabulary words
MaxTokens == 3
\* generated tables have at most MaxRows rows
MaxRows == 2
\* a modelled session holds at most MaxTurns submissions
MaxTurns == 2

(* Program constants *)
DefaultSampleN == 5
DotMax == 10
ShowMax == 20
ContextMax == 10

---------------------------------------------------------------------------
(* Characters and strings *)

Min(a, b) == IF a < b THEN a ELSE b

\* str.lower() on the characters of the model's alphabet
LowerChar(c) ==
    CASE c = "A" -> "a"
      [] c = "H" -> "h"
      [] c = "E" -> "e"
      [] c = "D" -> "d"
      [] OTHER -> c

Lower(s) == [i \in 1..Len(s) |-> LowerChar(s[i])]

\* \s of the regular expressions and the whitespace str.strip() removes
IsSpace(c) == c \in {" ", "\t", "\n"}

\* \d
IsDigit(c) == c \in {"0", "1", "2", "3", "4", "5", "6", "7", "8", "9"}

DigitVal(c) ==
    CASE c = "0" -> 0 [] c = "1" -> 1 [] c = "2" -> 2 [] c = "3" -> 3
      [] c = "4" -> 4 [] c = "5" -> 5 [] c = "6" -> 6 [] c = "7" -> 7
      [] c = "8" -> 8 [] c = "9" -> 9

DigitChar(d) == <<"0", "1", "2", "3", "4", "5", "6", "7", "8", "9">>[d + 1]

RECURSIVE LStrip(_)
LStrip(s) == IF s # <<>> /\ IsSpace(Head(s)) THEN LStrip(Tail(s)) ELSE s

RECURSIVE RStrip(_)
RStrip(s) ==
    IF s # <<>> /\ IsSpace(s[Len(s)]) THEN RStrip(SubSeq(s, 1, Len(s) - 1)) ELSE s

\* a variant that leaves the text as typed
StripNone(s) == s

\* str.strip()
Strip(s) == RStrip(LStrip(s))

\* t occurs in s at position i
OccursAt(s, t, i) ==
    /\ i + Len(t) - 1 <= Len(s)
    /\ \A j \in 1..Len(t) : s[i + j - 1] = t[j]

\* Python's  t in s
Contains(s, t) == \E i \in 1..(Len(s) - Len(t) + 1) : OccursAt(s, t, i)

RECURSIVE Concat(_)
Concat(ss) == IF ss = <<>> THEN <<>> ELSE Head(ss) \o Concat(Tail(ss))

---------------------------------------------------------------------------
(* The words answer_query looks for *)

ColumnTerms ==
    { <<"ka", "ra", "mu_k">>, <<"retsu">>, <<"c", "o", "l", "u", "m", "n", "s">> }

SampleTerms ==
    { <<"sa", "n_k", "pu", "ru_k">>, <<"sen", "tou">>, <<"h", "e", "a", "d">> }

AverageTerm == <<"hei", "kin">>

UsefulTerms ==
    { <<"yaku", "ritsu">>, <<"yaku", "ni">>, <<"u", "s", "e", "f", "u", "l">> }

\* the alternatives of the first group of the keyword pattern, in order
ContainVerbs ==
    << <<"fuku", "mu">>, <<"fuku", "me", "ru">>, <<"fuku", "ma", "re", "ru">> >>

LlmTerms ==
    { <<"you", "yaku2">>, <<"ma", "to", "me", "te">>,
      <<"setsu", "mei", "shi", "te">>, <<"kai", "setsu">> }

ContainsAny(s, terms) == \E t \in terms : Contains(s, t)

\* column names
ColUseful == "yakudatta"      \* 授業が役立ったか（５段階評価）
ColDifficult == "muzukashii"  \* 授業が難しかったか（５段階評価）
ColAnswer == "kaitou"         \* アンケート回答
ColNumber == "bangou"         \* 番号
ColStudent == "gakusei"       \* 学生番号
ColDate == "nichiji"          \* 回答日時

---------------------------------------------------------------------------
(* re.search(r"(\d+)", q_lower) and int(m.group(1)) *)

RECURSIVE FirstDigitAt(_, _)
FirstDigitAt(s, i) ==
    IF i > Len(s) THEN 0
    ELSE IF IsDigit(s[i]) THEN i ELSE FirstDigitAt(s, i + 1)

RECURSIVE DigitRunEnd(_, _)
DigitRunEnd(s, i) ==
    IF i < Len(s) /\ IsDigit(s[i + 1]) THEN DigitRunEnd(s, i + 1) ELSE i

RECURSIVE ParseInt(_)
ParseInt(ds) ==
    IF ds = <<>> THEN 0
    ELSE 10 * ParseInt(SubSeq(ds, 1, Len(ds) - 1)) + DigitVal(ds[Len(ds)])

\* the first maximal run of digits of s, <<>> when s has no digit
FirstDigitRun(s) ==
    LET i == FirstDigitAt(s, 1)
    IN  IF i = 0 THEN <<>> ELSE SubSeq(s, i, DigitRunEnd(s, i))

SampleCount(q_lower) ==
    LET m == FirstDigitRun(q_lower)
    IN  IF m # <<>> THEN ParseInt(m) ELSE DefaultSampleN

---------------------------------------------------------------------------
(* re.search(r"(含む|含める|含まれる).{0,10}['\"“”]?([^'\"、\s]+)['\"”]?", q)  *)
(* with Python's leftmost, greedy, backtracking semantics; the value is    *)
(* m.group(2), or <<>> when the pattern does not match (a match never      *)
(* captures the empty string).                                             *)

OpenQuotes == {"'", "\"", "ldquo", "rdquo"}

\* the characters the capturing class [^'\"、\s] excludes
IsKeywordStop(c) == c \in {"'", "\"", "touten"} \/ IsSpace(c)

\* . matches anything but a line break
IsDot(c) == c # "\n"

RECURSIVE KeywordRunEnd(_, _)
KeywordRunEnd(q, p) ==
    IF p <= Len(q) /\ ~IsKeywordStop(q[p]) THEN KeywordRunEnd(q, p + 1) ELSE p - 1

\* ([^'\"、\s]+) at position p: the longest run, <<>> when it cannot match
GroupAt(q, p) == SubSeq(q, p, KeywordRunEnd(q, p))

\* ['\"“”]?([^'\"、\s]+) at position p: the quote is taken first when there
QuoteThenGroup(q, p) ==
    IF p <= Len(q) /\ q[p] \in OpenQuotes /\ GroupAt(q, p + 1) # <<>>
    THEN GroupAt(q, p + 1)
    ELSE GroupAt(q, p)

\* number of characters from p on that . can consume, at most k
RECURSIVE DotRun(_, _, _)
DotRun(q, p, k) ==
    IF k > 0 /\ p <= Len(q) /\ IsDot(q[p]) THEN 1 + DotRun(q, p + 1, k - 1) ELSE 0

\* .{0,10} from position p, trying k characters, then k - 1, ..., then 0
RECURSIVE SkipThenGroup(_, _, _)
SkipThenGroup(q, p, k) ==
    LET g == QuoteThenGroup(q, p + k)
    IN  IF g # <<>> THEN g
        ELSE IF k = 0 THEN <<>>
        ELSE SkipThenGroup(q, p, k - 1)

\* the pattern anchored at position i, trying the verbs in order from v on
RECURSIVE MatchAt(_, _, _)
MatchAt(q, i, v) ==
    IF v > Len(ContainVerbs) THEN <<>>
    ELSE LET verb == ContainVerbs[v]
             p == i + Len(verb)
             g == IF OccursAt(q, verb, i)
                  THEN SkipThenGroup(q, p, DotRun(q, p, DotMax))
                  ELSE <<>>
         IN  IF g # <<>> THEN g ELSE MatchAt(q, i, v + 1)

RECURSIVE SearchFrom(_, _)
SearchFrom(q, i) ==
    IF i > Len(q) THEN <<>>
    ELSE LET g == MatchAt(q, i, 1)
         IN  IF g # <<>> THEN g ELSE SearchFrom(q, i + 1)

ExtractKeyword(q) == SearchFrom(q, 1)

---------------------------------------------------------------------------
(* Series.str.contains(pat, case=False, na=False): pat is compiled as a    *)
(* regular expression.  In the model's alphabet the only regex             *)
(* metacharacters are the parentheses: a pattern whose parentheses are     *)
(* unbalanced does not compile (re.error), every other pattern is a        *)
(* literal and matches where it occurs, ignoring case.                     *)

RECURSIVE ParenDepth(_, _)
ParenDepth(pat, depth) ==
    IF depth < 0 THEN -1
    ELSE IF pat = <<>> THEN depth
    ELSE ParenDepth(Tail(pat),
                    CASE Head(pat) = "(" -> depth + 1
                      [] Head(pat) = ")" -> depth - 1
                      [] OTHER -> depth)

RegexCompiles(pat) == ParenDepth(pat, 0) = 0

StrContains(text, pat) == Contains(Lower(text), Lower(pat))

---------------------------------------------------------------------------
(* The table.  df is [columns: the column names in order, rows: the rows   *)
(* in order, each a function from the column names to cells].  A cell is   *)
(* [isna, val]: NaN (isna), a text, or a natural number.  ColAnswer holds  *)
(* texts, the two rating columns hold what pd.to_numeric(errors="coerce")  *)
(* left.                                                                   *)

NaNum == [isna |-> TRUE, val |-> 0]
NaText == [isna |-> TRUE, val |-> <<>>]
Cell(v) == [isna |-> FALSE, val |-> v]
IsNull(cell) == cell.isna

NumericColumns == {ColUseful, ColDifficult}

ColumnValues(table, c) == [i \in 1..Len(table.rows) |-> table.rows[i][c]]

HasColumn(table, c) == \E i \in 1..Len(table.columns) : table.columns[i] = c

AllNull(cells) == \A i \in 1..Len(cells) : IsNull(cells[i])

\* the dtype pandas gives the column: read_csv's inference, then
\* to_datetime and to_numeric
DType(table, c) ==
    LET cells == ColumnValues(table, c)
    IN  IF c = ColDate THEN "datetime64"
        ELSE IF c \in NumericColumns \cup {ColNumber}
        THEN IF \E i \in 1..Len(cells) : IsNull(cells[i]) THEN "float64" ELSE "int64"
        ELSE IF cells # <<>> /\ AllNull(cells) THEN "float64" ELSE "object"

RECURSIVE SelectSeq2(_, _, _)
SelectSeq2(s, keep, i) ==
    IF i > Len(s) THEN <<>>
    ELSE (IF keep[i] THEN <<s[i]>> ELSE <<>>) \o SelectSeq2(s, keep, i + 1)

\* df.select_dtypes(include=["object", "string"]).columns
TextColumns(table) ==
    SelectSeq2(table.columns,
               [i \in 1..Len(table.columns) |-> DType(table, table.columns[i]) = "object"],
               1)

\* options of the search-column selectbox
ColsForSearch(table) ==
    IF TextColumns(table) # <<>> THEN TextColumns(table) ELSE table.columns

RECURSIVE NatToStr(_)
NatToStr(n) ==
    IF n < 10 THEN <<DigitChar(n)>> ELSE NatToStr(n \div 10) \o <<DigitChar(n % 10)>>

\* Series.astype(str) on one cell
AsStr(cell, dtype) ==
    IF IsNull(cell) THEN <<"n", "a", "n">>
    ELSE IF dtype = "object" THEN cell.val
    ELSE IF dtype = "float64" THEN NatToStr(cell.val) \o <<".", "0">>
    ELSE NatToStr(cell.val)

\* a variant taking the last n rows, as df.tail(n)
TailRows(rows, n) == SubSeq(rows, Len(rows) - Min(n, Len(rows)) + 1, Len(rows))

\* df.head(n), n >= 0
HeadRows(rows, n) == SubSeq(rows, 1, Min(n, Len(rows)))

\* DataFrame.to_string(index=False) prints one line per row below the
\* header line; the model keeps the rows it prints, in order
RowsToString(rows) == rows

\* df[mask]
Matched(table, mask) == SelectSeq2(table.rows, mask, 1)

\* df[c].astype(str).str.contains(keyword, case=False, na=False)
ContainsMask(table, c, keyword) ==
    LET dtype == DType(table, c)
    IN  [i \in 1..Len(table.rows) |->
            StrContains(AsStr(table.rows[i][c], dtype), keyword)]

RECURSIVE SumNonNull(_)
SumNonNull(cells) ==
    IF cells = <<>> THEN 0
    ELSE (IF IsNull(Head(cells)) THEN 0 ELSE Head(cells).val) + SumNonNull(Tail(cells))

RECURSIVE CountNonNull(_)
CountNonNull(cells) ==
    IF cells = <<>> THEN 0
    ELSE (IF IsNull(Head(cells)) THEN 0 ELSE 1) + CountNonNull(Tail(cells))

\* a variant dividing by the number of cells, NaN cells included
MeanCountingNulls(cells) == [sum |-> SumNonNull(cells), count |-> Len(cells)]

\* Series.mean(skipna=True): the quotient sum / count, NaN when count = 0
Mean(cells) == [sum |-> SumNonNull(cells), count |-> CountNonNull(cells)]

\* np.isnan
IsNaN(avg) == avg.count = 0

\* hundredths nearest to sum / count, a tie going to the even one
RoundHundredths(avg) ==
    LET num == 100 * avg.sum
        fl == num \div avg.count
        twice == 2 * (num % avg.count)
    IN  IF twice > avg.count \/ (twice = avg.count /\ fl % 2 = 1) THEN fl + 1 ELSE fl

\* f"{avg:.2f}" for a non-negative avg, and Python's "nan" for NaN
Format2(avg) ==
    IF IsNaN(avg) THEN <<"n", "a", "n">>
    ELSE LET h == RoundHundredths(avg)
         IN  NatToStr(h \div 100) \o <<".">> \o
             <<DigitChar((h % 100) \div 10), DigitChar(h % 10)>>

---------------------------------------------------------------------------
(* What answer_query returns.  A returned string is modelled by the return *)
(* statement that built it (kind) and the values interpolated into it; an  *)
(* exception leaving answer_query is the outcome of kind "raise".          *)

Response(rule, kind) ==
    [rule |-> rule, kind |-> kind, n |-> 0, keyword |-> <<>>, col |-> "",
     count |-> 0, rows |-> <<>>, text |-> <<>>, cols |-> <<>>]

NoResult == Response(0, "none")

NoPrompt ==
    [composed |-> FALSE, columns |-> <<>>, samples |-> <<>>, stats |-> <<>>,
     question |-> <<>>]

---------------------------------------------------------------------------
(* The Gemini wrappers.  out is what the two SDK attempts do in this call: *)
(* out.vertexai and out.aiplatform are "ok" or "raise".                    *)

GeminiOutcomes ==
    { [vertexai |-> "ok", aiplatform |-> "ok"],
      [vertexai |-> "raise", aiplatform |-> "ok"],
      [vertexai |-> "raise", aiplatform |-> "raise"] }

\* the text the vertexai model answers, and the aiplatform model
VertexText == <<"r", "1">>
PlatformText == <<"r", "2">>

Attempt(sdk, outcome) == [sdk |-> sdk, outcome |-> outcome]

\* the string returned and the attempts made: vertexai first, and
\* google.cloud.aiplatform when that raised
CallGeminiViaVertexSdk(prompt, out) ==
    IF out.vertexai = "ok"
    THEN [resp |-> [Response(6, "llm_text") EXCEPT !.text = VertexText],
          calls |-> <<Attempt("vertexai", "ok")>>]
    ELSE IF out.aiplatform = "ok"
    THEN [resp |-> [Response(6, "llm_text") EXCEPT !.text = PlatformText],
          calls |-> <<Attempt("vertexai", "raise"), Attempt("aiplatform", "ok")>>]
    ELSE [resp |-> [Response(6, "gemini_failed") EXCEPT !.text = <<"Exception">>],
          calls |-> <<Attempt("vertexai", "raise"), Attempt("aiplatform", "raise")>>]

\* a variant that does not look at the checkbox
CallGeminiAlways(prompt, gem, out) == CallGeminiViaVertexSdk(prompt, out)

\* call_gemini
CallGemini(prompt, gem, out) ==
    IF ~gem THEN [resp |-> Response(6, "gemini_disabled"), calls |-> <<>>]
    ELSE CallGeminiViaVertexSdk(prompt, out)

---------------------------------------------------------------------------
(* answer_query *)

\* df["アンケート回答"].dropna().astype(str).head(10).tolist()
TextSample(table) ==
    LET cells == ColumnValues(table, ColAnswer)
        kept == SelectSeq2(cells, [i \in 1..Len(cells) |-> ~IsNull(cells[i])], 1)
        strs == [i \in 1..Len(kept) |-> AsStr(kept[i], DType(table, ColAnswer))]
    IN  SubSeq(strs, 1, Min(ContextMax, Len(strs)))

\* the rendering of a mean in the context handed to the model
ContextStat(table, c) ==
    [column |-> c, text |-> Format2(Mean(ColumnValues(table, c)))]

ContextStats(table) ==
    (IF HasColumn(table, ColUseful) THEN <<ContextStat(table, ColUseful)>> ELSE <<>>)
    \o (IF HasColumn(table, ColDifficult)
        THEN <<ContextStat(table, ColDifficult)>> ELSE <<>>)

ComposePrompt(q, table) ==
    [composed |-> TRUE,
     columns |-> table.columns,
     samples |-> IF HasColumn(table, ColAnswer) THEN TextSample(table) ELSE <<>>,
     stats |-> ContextStats(table),
     question |-> q]

IsEmptyQuery(q) == q = <<>>

IsColumnQuery(q_lower) == ContainsAny(q_lower, ColumnTerms)

IsSampleQuery(q_lower) == ContainsAny(q_lower, SampleTerms)

IsAverageQuery(q_lower) ==
    Contains(q_lower, AverageTerm) /\ ContainsAny(q_lower, UsefulTerms)

IsLlmQuery(q_lower, llm) == llm \/ ContainsAny(q_lower, LlmTerms)

\* a variant asking for two characters
FallbackGuardTwo(keyword) == Len(keyword) >= 2

FallbackGuard(keyword) == Len(keyword) >= 1

SampleAnswer(q_lower, table) ==
    LET n == SampleCount(q_lower)
    IN  [Response(3, "preview") EXCEPT
            !.n = n, !.rows = RowsToString(HeadRows(table.rows, n))]

AverageAnswer(table) ==
    LET col == ColUseful
        avg == Mean(ColumnValues(table, col))
    IN  IF HasColumn(table, col)
        THEN IF ~IsNaN(avg)
             THEN [Response(4, "average") EXCEPT !.col = col, !.text = Format2(avg)]
             ELSE [Response(4, "no_numeric") EXCEPT !.col = col]
        ELSE [Response(4, "col_not_found") EXCEPT !.col = col]

KeywordAnswer(keyword, table, scol) ==
    LET col == IF scol # "" THEN scol ELSE ColAnswer
    IN  IF ~HasColumn(table, col)
        THEN [Response(5, "search_col_not_found") EXCEPT !.col = col]
        ELSE IF ~RegexCompiles(keyword)
        THEN [Response(5, "raise") EXCEPT !.text = <<"re.error">>]
        ELSE LET matched == Matched(table, ContainsMask(table, col, keyword))
             IN  IF Len(matched) = 0
                 THEN [Response(5, "kw_no_match") EXCEPT
                          !.keyword = keyword, !.col = col]
                 ELSE [Response(5, "kw_match") EXCEPT
                          !.keyword = keyword, !.count = Len(matched),
                          !.rows = RowsToString(HeadRows(matched, ShowMax))]

FallbackAnswer(keyword, table) ==
    LET text_cols == TextColumns(table)
        masks == [k \in 1..Len(text_cols) |->
                     ContainsMask(table, text_cols[k], keyword)]
        mask == [i \in 1..Len(table.rows) |->
                    \E k \in 1..Len(text_cols) : masks[k][i]]
    IN  IF text_cols = <<>> THEN Response(7, "no_text_cols")
        ELSE IF ~RegexCompiles(keyword)
        THEN [Response(7, "raise") EXCEPT !.text = <<"re.error">>]
        ELSE LET matched == Matched(table, mask)
             IN  IF Len(matched) = 0
                 THEN [Response(7, "ft_no_match") EXCEPT !.keyword = keyword]
                 ELSE [Response(7, "ft_match") EXCEPT
                          !.count = Len(matched),
                          !.rows = RowsToString(HeadRows(matched, ShowMax))]

Answered(resp) == [resp |-> resp, prompt |-> NoPrompt, calls |-> <<>>]

\* a variant of answer_query testing the sample terms before the column terms
AnswerQuerySampleFirst(q0, table, llm, scol, gem, out) ==
    LET q == Strip(q0)
        q_lower == Lower(q)
        m == ExtractKeyword(q)
    IN  IF IsEmptyQuery(q) THEN Answered(Response(1, "help"))
        ELSE IF IsSampleQuery(q_lower) THEN Answered(SampleAnswer(q_lower, table))
        ELSE IF IsColumnQuery(q_lower)
        THEN Answered([Response(2, "columns") EXCEPT !.cols = table.columns])
        ELSE IF IsAverageQuery(q_lower) THEN Answered(AverageAnswer(table))
        ELSE IF m # <<>> THEN Answered(KeywordAnswer(m, table, scol))
        ELSE IF IsLlmQuery(q_lower, llm)
        THEN LET prompt == ComposePrompt(q, table)
                 g == CallGemini(prompt, gem, out)
             IN  [resp |-> g.resp, prompt |-> prompt, calls |-> g.calls]
        ELSE IF FallbackGuard(q) THEN Answered(FallbackAnswer(q, table))
        ELSE Answered(Response(8, "apology"))

\* answer_query(query, df, use_llm); scol and gem are the globals
\* search_column and use_gemini it reads, out what the SDK does if called
AnswerQuery(q0, table, llm, scol, gem, out) ==
    LET q == Strip(q0)
        q_lower == Lower(q)
        m == ExtractKeyword(q)
    IN  IF IsEmptyQuery(q) THEN Answered(Response(1, "help"))
        ELSE IF IsColumnQuery(q_lower)
        THEN Answered([Response(2, "columns") EXCEPT !.cols = table.columns])
        ELSE IF IsSampleQuery(q_lower) THEN Answered(SampleAnswer(q_lower, table))
        ELSE IF IsAverageQuery(q_lower) THEN Answered(AverageAnswer(table))
        ELSE IF m # <<>> THEN Answered(KeywordAnswer(m, table, scol))
        ELSE IF IsLlmQuery(q_lower, llm)
        THEN LET prompt == ComposePrompt(q, table)
                 g == CallGemini(prompt, gem, out)
             IN  [resp |-> g.resp, prompt |-> prompt, calls |-> g.calls]
        ELSE IF FallbackGuard(q) THEN Answered(FallbackAnswer(q, table))
        ELSE Answered(Response(8, "apology"))

---------------------------------------------------------------------------
(* The inputs of the model *)

Range(f) == {f[i] : i \in DOMAIN f}

\* the words typed queries are made of: 列, head, 平均, 役立, 含む, 要約,
\* a digit, a blank, a quote
Vocabulary ==
    { <<"retsu">>, <<"h", "e", "a", "d">>, <<"hei", "kin">>, <<"yaku", "ritsu">>,
      <<"fuku", "mu">>, <<"you", "yaku2">>, <<"3">>, <<" ">>, <<"'">> }

TypedQueries ==
    UNION { {Concat(ws) : ws \in [1..n -> Vocabulary]} : n \in 0..MaxTokens }

\* the queries of the four sidebar buttons
ButtonColumns == <<"ka", "ra", "mu_k", "ichi", "ran">>
ButtonSample == <<"sa", "n_k", "pu", "ru_k", "gyou">>
ButtonAverage ==
    <<"ju", "gyou2", "ga", "yaku", "ritsu", "tsu_s", "ta", "ka_h", "lparen_fw",
      "hei", "kin", "rparen_fw", "wo", "oshi", "e_h", "te">>
KeywordQuery(x) ==
    <<"a_k", "n_k", "ke", "chouon", "to_k", "kai2", "tou2", "ni", " ", "'">>
    \o x \o <<"'", " ", "wo", "fuku", "mu", "gyou", "wo", "hyou", "ji">>
Enshuu == <<"en", "shuu">>
ButtonKeyword == KeywordQuery(Enshuu)
ButtonQueries == {ButtonColumns, ButtonSample, ButtonAverage, ButtonKeyword}

\* further queries asked of the generated tables: a blank, "Head 1", 要約, "A",
\* "(", 含む(, 含む 演習, and the keyword query for the letter a
TableQueries ==
    ButtonQueries \cup
    { <<" ">>, <<"H", "e", "a", "d", " ", "1">>, <<"you", "yaku2">>, <<"A">>,
      <<"(">>, <<"fuku", "mu", "(">>,
      <<"fuku", "mu", " ">> \o Enshuu, KeywordQuery(<<"a">>) }

\* sample_csv as loaded; of each free-text answer the model keeps the words
\* the queries can hit (演習, 説明, 解説), "etc" standing for the rest
SampleRow(no, student, answer, useful, difficult) ==
    [bangou |-> Cell(no), gakusei |-> Cell(student), kaitou |-> Cell(answer),
     yakudatta |-> Cell(useful), muzukashii |-> Cell(difficult),
     nichiji |-> Cell(<<"2", "0", "2", "5">>)]

SampleTable ==
    [columns |-> <<ColNumber, ColStudent, ColAnswer, ColUseful, ColDifficult, ColDate>>,
     rows |-> <<
        SampleRow(1, <<"S", "0", "5", "3">>, <<"etc", "en", "shuu", "etc">>, 5, 3),
        SampleRow(2, <<"S", "0", "1", "2">>, <<"etc">>, 4, 4),
        SampleRow(3, <<"S", "0", "7", "6">>, <<"etc">>, 5, 2),
        SampleRow(4, <<"S", "0", "0", "9">>, <<"etc", "setsu", "mei", "shi", "te">>, 2, 3),
        SampleRow(5, <<"S", "0", "3", "4">>, <<"etc", "setsu", "mei", "etc">>, 5, 3),
        SampleRow(6, <<"S", "0", "2", "2">>, <<"etc">>, 4, 5),
        SampleRow(7, <<"S", "0", "6", "1">>, <<"etc">>, 5, 3),
        SampleRow(8, <<"S", "0", "0", "2">>, <<"etc">>, 3, 5),
        SampleRow(9, <<"S", "0", "7", "3">>, <<"etc">>, 4, 2),
        SampleRow(10, <<"S", "0", "3", "0">>, <<"etc", "kai", "setsu", "etc">>, 4, 3) >>]

\* an uploaded table with more matching rows than one answer shows
LongTable ==
    [columns |-> <<ColAnswer>>,
     rows |-> [i \in 1..(ShowMax + 1) |-> [kaitou |-> Cell(<<"a">>)]]]

AnswerCells == {Cell(Enshuu), Cell(<<"a">>), NaText}
UsefulCells == {NaNum, Cell(4), Cell(5)}
DifficultCells == {NaNum, Cell(3)}

\* uploaded tables of at most MaxRows rows, in three shapes
TablesOf(columns, rowset) ==
    { [columns |-> columns, rows |-> rs] :
        rs \in UNION { [1..n -> rowset] : n \in 0..MaxRows } }

Tables ==
    TablesOf(<<ColAnswer, ColUseful>>,
             [kaitou : AnswerCells, yakudatta : UsefulCells])
    \cup TablesOf(<<ColAnswer>>, [kaitou : AnswerCells])
    \cup TablesOf(<<ColUseful, ColDifficult>>,
                  [yakudatta : UsefulCells, muzukashii : DifficultCells])
    \cup {SampleTable, LongTable}

---------------------------------------------------------------------------
(* The analysis panel: col2.metric and col3.metric *)

NotAvailable == <<"N", "/", "A">>

Metric(table, c) ==
    IF HasColumn(table, c)
    THEN LET avg == Mean(ColumnValues(table, c))
         IN  IF ~IsNaN(avg) THEN Format2(avg) ELSE NotAvailable
    ELSE NotAvailable

PanelMetrics(table) ==
    [rendered |-> TRUE, useful |-> Metric(table, ColUseful),
     difficult |-> Metric(table, ColDifficult)]

NoMetrics == [rendered |-> FALSE, useful |-> <<>>, difficult |-> <<>>]

---------------------------------------------------------------------------
(* One call of answer_query on inputs drawn from the bounded sets *)

Init ==
    /\ pc = "ready"
    /\ \/ query \in TypedQueries /\ df = SampleTable
       \/ query \in TableQueries /\ df \in Tables
    /\ search_column \in Range(ColsForSearch(df))
    /\ use_gemini \in BOOLEAN
    /\ use_llm \in BOOLEAN
    /\ user_input = <<>>
    /\ result = NoResult
    /\ full_prompt = NoPrompt
    /\ sdk_calls = <<>>
    /\ chat_history = <<>>
    /\ displayed = <<>>
    /\ metrics = NoMetrics

\* the ways one call can end: the SDK's behaviour matters only to a call
\* that reaches it
CallOutcomes(q0, table, llm, scol, gem) ==
    LET first == AnswerQuery(q0, table, llm, scol, gem,
                             [vertexai |-> "ok", aiplatform |-> "ok"])
    IN  IF first.calls # <<>>
        THEN {AnswerQuery(q0, table, llm, scol, gem, out) : out \in GeminiOutcomes}
        ELSE {first}

Call ==
    /\ pc = "ready"
    /\ \E a \in CallOutcomes(query, df, use_llm, search_column, use_gemini) :
              /\ result' = a.resp
              /\ full_prompt' = a.prompt
              /\ sdk_calls' = a.calls
    /\ pc' = "done"
    /\ UNCHANGED <<df, search_column, use_gemini, user_input, query, use_llm,
                   chat_history, displayed, metrics>>

Next == Call

Spec == Init /\ [][Next]_vars

---------------------------------------------------------------------------
(* A session of the app.  Every interaction reruns the script: the chat    *)
(* submit handler, the history display, then the analysis panel.           *)

\* an uploaded table whose rating cells are all blank
BlankRatingsTable ==
    [columns |-> <<ColAnswer, ColUseful>>,
     rows |-> <<[kaitou |-> Cell(Enshuu), yakudatta |-> NaNum]>>]

ChatTables == {SampleTable, BlankRatingsTable}

\* what the user types into the text box: nothing, a blank, 要約, 含む(
ChatQuestions ==
    { <<>>, <<" ">>, <<"you", "yaku2">>, <<"fuku", "mu", "(">> }

Entry(role, text) == [role |-> role, text |-> text]

\* st.markdown of one history entry
Markdown(entry) ==
    IF entry.role = "user"
    THEN [label |-> "anata", code |-> FALSE, text |-> entry.text]
    ELSE [label |-> "tool", code |-> TRUE, text |-> entry.text]

\* a variant showing the history in the order stored
DisplayInOrder(history) == [i \in 1..Len(history) |-> Markdown(history[i])]

\* for role, text in st.session_state.chat_history[::-1]
Display(history) ==
    [i \in 1..Len(history) |-> Markdown(history[Len(history) + 1 - i])]

\* one run of the script with the given text as user_input; an exception
\* leaving answer_query ends the run before the display and the panel
RunScript(input, gem, scol) ==
    IF input = <<>>
    THEN /\ chat_history' = chat_history
         /\ displayed' = Display(chat_history)
         /\ metrics' = PanelMetrics(df)
         /\ UNCHANGED <<query, use_llm, result, full_prompt, sdk_calls>>
    ELSE LET user_question == Strip(input)
             asked == Append(chat_history, Entry("user", user_question))
         IN  \E a \in CallOutcomes(user_question, df, gem, scol, gem) :
                /\ query' = user_question
                /\ use_llm' = gem
                /\ result' = a.resp
                /\ full_prompt' = a.prompt
                /\ sdk_calls' = a.calls
                /\ IF a.resp.kind = "raise"
                   THEN /\ chat_history' = asked
                        /\ displayed' = <<>>
                        /\ metrics' = NoMetrics
                   ELSE /\ chat_history' = Append(asked, Entry("bot", a.resp))
                        /\ displayed' = Display(chat_history')
                        /\ metrics' = PanelMetrics(df)

\* the model stops submitting once the history holds MaxTurns submissions
CanSubmit(input) == input = <<>> \/ Len(chat_history) <= 2 * (MaxTurns - 1)

InitChat ==
    /\ pc = "session"
    /\ df \in ChatTables
    /\ search_column = ColsForSearch(df)[1]
    /\ use_gemini = FALSE
    /\ user_input = <<>>
    /\ query = <<>>
    /\ use_llm = FALSE
    /\ result = NoResult
    /\ full_prompt = NoPrompt
    /\ sdk_calls = <<>>
    /\ chat_history = <<>>
    /\ displayed = <<>>
    /\ metrics = PanelMetrics(df)

TypeQuestion ==
    /\ pc = "session"
    /\ \E q \in ChatQuestions :
          /\ CanSubmit(q)
          /\ user_input' = q
          /\ RunScript(q, use_gemini, search_column)
    /\ UNCHANGED <<df, search_column, use_gemini, pc>>

ClickButton ==
    /\ pc = "session"
    /\ \E b \in ButtonQueries :
          /\ CanSubmit(b)
          /\ RunScript(b, use_gemini, search_column)
    /\ UNCHANGED <<df, search_column, use_gemini, user_input, pc>>

ToggleGemini ==
    /\ pc = "session"
    /\ CanSubmit(user_input)
    /\ use_gemini' = ~use_gemini
    /\ RunScript(user_input, ~use_gemini, search_column)
    /\ UNCHANGED <<df, search_column, user_input, pc>>

SelectSearchColumn ==
    /\ pc = "session"
    /\ CanSubmit(user_input)
    /\ \E c \in Range(ColsForSearch(df)) \ {search_column} :
          /\ search_column' = c
          /\ RunScript(user_input, use_gemini, c)
    /\ UNCHANGED <<df, use_gemini, user_input, pc>>

NextChat == TypeQuestion \/ ClickButton \/ ToggleGemini \/ SelectSearchColumn

SpecChat == InitChat /\ [][NextChat]_vars

---------------------------------------------------------------------------
(* Properties *)

Done == pc = "done"

AllBlank(s) == \A i \in 1..Len(s) : IsSpace(s[i])

\* the trigger of rule r, 1 to 7, for a query and LLM flag
Trigger(r, q0, llm) ==
    CASE r = 1 -> AllBlank(q0)
      [] r = 2 -> ContainsAny(Lower(Strip(q0)), ColumnTerms)
      [] r = 3 -> ContainsAny(Lower(Strip(q0)), SampleTerms)
      [] r = 4 -> /\ Contains(Lower(Strip(q0)), AverageTerm)
                  /\ ContainsAny(Lower(Strip(q0)), UsefulTerms)
      [] r = 5 -> ExtractKeyword(Strip(q0)) # <<>>
      [] r = 6 -> llm \/ ContainsAny(Lower(Strip(q0)), LlmTerms)
      [] r = 7 -> TRUE

\* the lowest-numbered rule whose trigger holds
RECURSIVE LowestRuleFrom(_, _, _)
LowestRuleFrom(r, q0, llm) ==
    IF Trigger(r, q0, llm) THEN r ELSE LowestRuleFrom(r + 1, q0, llm)

LowestRule(q0, llm) == LowestRuleFrom(1, q0, llm)

KindsOfRule(r) ==
    CASE r = 1 -> {"help"}
      [] r = 2 -> {"columns"}
      [] r = 3 -> {"preview"}
      [] r = 4 -> {"average", "no_numeric", "col_not_found"}
      [] r = 5 -> {"search_col_not_found", "kw_no_match", "kw_match", "raise"}
      [] r = 6 -> {"llm_text", "gemini_disabled", "gemini_failed"}
      [] r = 7 -> {"no_text_cols", "ft_no_match", "ft_match", "raise"}
      [] OTHER -> {}

\* C1: every call is settled by the lowest-numbered rule whose trigger the
\* query satisfies, whatever later rules it also satisfies: the outcome is
\* one of that rule's.
C1_RuleOrder ==
    Done => /\ result.rule = LowestRule(query, use_llm)
            /\ result.kind \in KindsOfRule(result.rule)

\* a query with a column-list term and a sample term got the column list,
\* and one with the average trigger and a containment pattern the average
C1_Witness ==
    /\ Done
    /\ Trigger(2, query, use_llm) /\ Trigger(3, query, use_llm)
    /\ Trigger(5, query, use_llm)
    /\ result.kind = "columns"

C1_WitnessAverage ==
    /\ Done
    /\ Trigger(4, query, use_llm) /\ Trigger(5, query, use_llm)
    /\ result.rule = 4

\* C2: answer_query never raises to its caller: every call ends by
\* returning a string.
C2_NeverRaises == Done => result.kind # "raise"

\* the keyword a containment query names: the quoted word of the keyword
\* button's sentence, the word after the verb in "含む X"
ContainVerbFirst(x) == <<"fuku", "mu", " ">> \o x

IntendedKeyword(q) ==
    CASE q = KeywordQuery(Enshuu) -> Enshuu
      [] q = KeywordQuery(<<"a">>) -> <<"a">>
      [] q = ContainVerbFirst(Enshuu) -> Enshuu
      [] OTHER -> <<>>

\* the rows of the table whose text in column c contains x, ignoring case
RowsWith(table, c, x) ==
    SelectSeq2(table.rows,
               [i \in 1..Len(table.rows) |->
                   /\ ~IsNull(table.rows[i][c])
                   /\ Contains(Lower(AsStr(table.rows[i][c], DType(table, c))),
                               Lower(x))],
               1)

\* C3: a keyword-containment query naming keyword X that reaches rule 5
\* searches X: with X in k >= 1 rows of the search column the response
\* reports k matches and renders min(k, 20) of those rows, with X in no
\* row it is the no-match message naming X.
C3_SearchesNamedKeyword ==
    (Done /\ IntendedKeyword(query) # <<>> /\ result.rule = 5) =>
        LET x == IntendedKeyword(query)
            hits == RowsWith(df, search_column, x)
        IN  IF Len(hits) >= 1
            THEN /\ result.kind = "kw_match"
                 /\ result.keyword = x
                 /\ result.count = Len(hits)
                 /\ result.rows = SubSeq(hits, 1, Min(Len(hits), ShowMax))
            ELSE /\ result.kind = "kw_no_match"
                 /\ result.keyword = x

\* text is digits, a point, and exactly two digits
IsTwoDecimal(text) ==
    /\ Len(text) >= 4
    /\ text[Len(text) - 2] = "."
    /\ \A i \in 1..Len(text) : i # Len(text) - 2 => IsDigit(text[i])

\* the number of hundredths a two-decimal text denotes
Hundredths(text) ==
    100 * ParseInt(SubSeq(text, 1, Len(text) - 3))
    + ParseInt(SubSeq(text, Len(text) - 1, Len(text)))

\* h hundredths is a nearest two-decimal value to sum / count
IsNearest(h, sum, count) ==
    LET diff == 100 * sum - h * count
    IN  2 * diff <= count /\ -2 * diff <= count

\* C4: a query that reaches rule 4 gets the column-not-found message naming
\* the usefulness column when the column is absent, the mean of its non-null
\* values with exactly two decimal places when it has one, and the
\* no-numeric-data message when every value is null.
C4_Average ==
    (Done /\ result.rule = 4) =>
        LET cells == ColumnValues(df, ColUseful)
        IN  IF ~HasColumn(df, ColUseful)
            THEN result.kind = "col_not_found" /\ result.col = ColUseful
            ELSE IF \E i \in 1..Len(cells) : ~IsNull(cells[i])
            THEN /\ result.kind = "average"
                 /\ result.col = ColUseful
                 /\ IsTwoDecimal(result.text)
                 /\ IsNearest(Hundredths(result.text),
                              SumNonNull(cells), CountNonNull(cells))
            ELSE result.kind = "no_numeric" /\ result.col = ColUseful

\* the sample data's mean 4.1 answered as 4.10, and a mean over a column
\* with a null value answered
C4_Witness ==
    /\ Done
    /\ result.kind = "average"
    /\ result.text = <<"4", ".", "1", "0">>

C4_WitnessSkipsNull ==
    /\ Done
    /\ result.kind = "average"
    /\ \E i \in 1..Len(df.rows) : IsNull(df.rows[i][ColUseful])

\* a rendered mean is a two-decimal number or an explanatory text
IsRenderedMean(text) == IsTwoDecimal(text) \/ text = NotAvailable

\* C5: every mean rendered into text (the answer of rule 4, the averages of
\* the LLM context, the two metrics of the panel) is a number with exactly
\* two decimal places or an explanatory string, never a raw NaN token.
C5_NoRawNaN ==
    /\ result.kind = "average" => IsTwoDecimal(result.text)
    /\ \A i \in 1..Len(full_prompt.stats) : IsRenderedMean(full_prompt.stats[i].text)
    /\ metrics.rendered =>
          IsRenderedMean(metrics.useful) /\ IsRenderedMean(metrics.difficult)

\* the integer a query gives: the value of its first run of digits, 5 when
\* it has no digit
GivenCount(q0) ==
    LET q == Lower(Strip(q0))
        digits == {i \in 1..Len(q) : IsDigit(q[i])}
    IN  IF digits = {} THEN 5
        ELSE LET first == CHOOSE i \in digits : \A j \in digits : i <= j
                 last == CHOOSE k \in first..Len(q) :
                            /\ \A j \in first..k : j \in digits
                            /\ (k + 1) \notin digits
             IN  ParseInt(SubSeq(q, first, last))

\* C6 as stated: a query that reaches rule 3 gets exactly N rows, the first
\* N rows of the table, N the integer given or 5.
C6_ExactlyN ==
    (Done /\ result.rule = 3) =>
        /\ result.n = GivenCount(query)
        /\ Len(result.rows) = result.n
        /\ \A i \in 1..Len(result.rows) : result.rows[i] = df.rows[i]

\* C6 as amended: a query that reaches rule 3 gets the first min(N, number
\* of rows) rows of the table in table order, N the integer given or 5.
C6_FirstRows ==
    (Done /\ result.rule = 3) =>
        /\ result.kind = "preview"
        /\ result.n = GivenCount(query)
        /\ Len(result.rows) = Min(result.n, Len(df.rows))
        /\ \A i \in 1..Len(result.rows) : result.rows[i] = df.rows[i]

\* a "head 3" query on the ten sample rows got exactly three
C6_Witness ==
    /\ Done
    /\ result.kind = "preview"
    /\ result.n = 3
    /\ Len(df.rows) = 10
    /\ Len(result.rows) = 3

\* C7: an empty or whitespace-only query gets the help string, whatever the
\* table, the search column and the LLM flag, and the language model is not
\* called.
C7_BlankGetsHelp ==
    (Done /\ AllBlank(query)) =>
        /\ result = Response(1, "help")
        /\ sdk_calls = <<>>
        /\ ~full_prompt.composed

C7_Witness ==
    /\ Done
    /\ query = <<" ", " ">>
    /\ use_llm /\ use_gemini
    /\ result.kind = "help"

\* entry e of the history is shown as block b
ShownAs(e, b) ==
    /\ b.label = (IF e.role = "user" THEN "anata" ELSE "tool")
    /\ b.text = e.text

AppendOnlyStep ==
    /\ Len(chat_history') >= Len(chat_history)
    /\ \A i \in 1..Len(chat_history) :
          /\ chat_history'[i].role = chat_history[i].role
          /\ chat_history'[i].text = chat_history[i].text

\* the display of a run that reached it is the stored entries, last stored
\* first; a response is stored right after its query, so it is shown right
\* before it
ReversedDisplay(history, blocks) ==
    /\ Len(blocks) = Len(history)
    /\ \A i \in 1..Len(history) : ShownAs(history[Len(history) + 1 - i], blocks[i])
    /\ \A i \in 1..Len(blocks) :
          blocks[i].label = "tool" =>
              i < Len(blocks) /\ blocks[i + 1].label = "anata"

C9_LlmDelegation ==
    (Done /\ (result.rule = 6 \/ LowestRule(query, use_llm) = 6)) =>
        /\ result.rule = 6
        /\ LowestRule(query, use_llm) = 6
        /\ result.kind # "raise"
        /\ ~use_gemini => result = Response(6, "gemini_disabled") /\ sdk_calls = <<>>
        /\ use_gemini =>
              /\ sdk_calls # <<>>
              /\ LET last == sdk_calls[Len(sdk_calls)]
                 IN  IF last.outcome = "ok"
                     THEN /\ result.kind = "llm_text"
                          /\ result.text = (IF last.sdk = "vertexai"
                                            THEN VertexText ELSE PlatformText)
                     ELSE result.kind = "gemini_failed"

\* the three ways: a failed call, the placeholder, a verbatim response
C9_Witness ==
    /\ Done
    /\ result.kind = "gemini_failed"
    /\ Len(sdk_calls) = 2

C9_WitnessDisabled ==
    /\ Done
    /\ result.kind = "gemini_disabled"
    /\ ~use_llm

\* C10: the apology string is never returned: a non-empty query that
\* triggers none of rules 2 to 6 is settled by the full-text search (its
\* match count with up to 20 rows, its no-match message, or the
\* no-text-columns message), and with the LLM flag set the full-text search
\* is not reached.
C10_NoApology ==
    Done =>
        /\ result.kind # "apology"
        /\ result.rule # 8
        /\ use_llm => result.rule # 7
        /\ LowestRule(query, use_llm) = 7 =>
              /\ result.rule = 7
              /\ result.kind # "raise" =>
                    /\ result.kind \in {"ft_match", "ft_no_match", "no_text_cols"}
                    /\ Len(result.rows) = Min(result.count, ShowMax)

\* a one-character query settled by the full-text search, and a search
\* with more hits than it shows
C10_Witness ==
    /\ Done
    /\ Len(query) = 1
    /\ ~use_llm
    /\ result.kind = "ft_match"

C10_WitnessCapped ==
    /\ Done
    /\ result.kind = "ft_match"
    /\ result.count = ShowMax + 1
    /\ Len(result.rows) = ShowMax

=============================================================================
